---------------------------- MODULE Spec2Model ----------------------------
(***************************************************************************)
(* Payment reconciliation of WebLookMaxing: the Order and Payment          *)
(* collections, the payment controller (create / capture / refund), the    *)
(* PayPal and Nequi webhook routes and the admin order-status update.      *)
(*                                                                         *)
(* Every request handler is an async function: each `await` on the store   *)
(* or on a provider is one atomic step, and handlers of different requests *)
(* interleave between their steps.                                         *)
(***************************************************************************)
EXTENDS Integers, Sequences, FiniteSets, TLC

(***************************************************************************)
(* Bounds                                                                  *)
(***************************************************************************)
\* number of requests the system receives in one run
MaxReqs == 3

\* orders present in the Order collection (created earlier by createOrder)
Orders == {1, 2}
\* an order id that matches no Order document
NoOrder == 0
\* provider references (PayPal order ids, Nequi payment ids) in play
Refs == {1, 2}
\* values of Date.now() / the x-nequi-timestamp header
Clock == {1, 2}

Slots == 1..MaxReqs

\* number of createOrder requests in one run
MaxOrderReqs == 2
\* largest initial inventory of the product
MaxStock == 2
\* largest quantity of one item and largest number of items of one order
MaxQty == 2
MaxItems == 2

OSlots == 1..MaxOrderReqs

\* number of concurrent callers of getAccessToken on one client instance
MaxCallers == 2
\* number of tokens the provider issues in one run
MaxTokens == 3
\* the safety margin in seconds: (expires_in - 1800) * 1000
Margin == 1800
\* the values of Date.now() in seconds, and of expires_in in the token response
Times == {0, 1, 1799, 1800, 1801, 1802, 3600, 3601}
ExpiresIn == {1799, 1800, 1801, 3600}

Callers == 1..MaxCallers

(***************************************************************************)
(* Enumerations of the schemas                                             *)
(***************************************************************************)
\* IOrder.status
OrderStatus ==
  {"pending", "paid", "cancelled", "preparing", "shipped", "delivered", "refunded"}

\* IPayment.status (also IOrder.payment_status)
PaymentStatus == {"pending", "completed", "failed", "cancelled", "refunded"}

\* IPayment.provider values the payment controller writes
Providers == {"paypal", "nequi"}

\* event_type / eventType values of a webhook body; "OTHER" stands for every
\* value the switch statements do not list
PayPalEvents == {"PAYMENT.CAPTURE.COMPLETED", "PAYMENT.CAPTURE.DENIED", "OTHER"}
NequiEvents == {"PAYMENT_COMPLETED", "PAYMENT_FAILED", "OTHER"}

\* the result of findOne when no document matches
NoPayment == [id |-> 0, order_id |-> NoOrder, provider |-> "none", ref |-> 0, status |-> "none"]

VARIABLES
  orders,    \* Order collection: order id -> [status, payment_status, payment_id]
  payments,  \* Payment collection in insertion order; payments[i].id = i
  reqs,      \* the requests in order of arrival: local variables and position
  last,      \* the request step taken last: what it was and what it answered
  shop,      \* the product with tracked inventory and the orders saved for it
  oreqs,     \* the createOrder requests: local variables and position
  time,      \* Date.now() in seconds
  client,    \* one service instance: [accessToken, tokenExpiry]
  callers    \* the calls of getAccessToken: position and the token returned

vars == <<orders, payments, reqs, last, shop, oreqs, time, client, callers>>

\* the part of the state only createOrder touches
stockvars == <<shop, oreqs>>

\* the part of the state only getAccessToken touches
authvars == <<time, client, callers>>

(***************************************************************************)
(* The store: the queries and updates the handlers issue                   *)
(***************************************************************************)
\* a findOne that also asks for status 'pending':
\* Payment.findOne({ provider_payment_id: ref, status: 'pending' })
PaymentFindOnePending(pays, ref) ==
  LET hits == {i \in 1..Len(pays) : pays[i].ref = ref /\ pays[i].status = "pending"}
  IN IF hits = {} THEN NoPayment
     ELSE pays[CHOOSE i \in hits : \A j \in hits : i <= j]

\* a findOne whose filter value is dropped when nothing matches it, so that
\* the query falls back to the first document of the collection
PaymentFindOneOrFirst(pays, ref) ==
  LET hits == {i \in 1..Len(pays) : pays[i].ref = ref}
  IN IF hits # {} THEN pays[CHOOSE i \in hits : \A j \in hits : i <= j]
     ELSE IF Len(pays) > 0 THEN pays[1] ELSE NoPayment

\* Payment.findOne({ provider_payment_id: ref }): the first matching document
\* in insertion order (the order of the provider_payment_id index for equal
\* keys); the provider is not part of the query
PaymentFindOne(pays, ref) ==
  LET hits == {i \in 1..Len(pays) : pays[i].ref = ref}
  IN IF hits = {} THEN NoPayment
     ELSE pays[CHOOSE i \in hits : \A j \in hits : i <= j]

\* Payment.findOne({ id: payment_id })
PaymentFindById(pays, id) ==
  IF id \in 1..Len(pays) THEN pays[id] ELSE NoPayment

\* Payment.findOneAndUpdate({ id }, { status }): no condition on the current status
PaymentSetStatus(pays, id, st) ==
  [i \in 1..Len(pays) |-> IF pays[i].id = id THEN [pays[i] EXCEPT !.status = st] ELSE pays[i]]

\* the Payment collection without the unique index on order_id
OrderIdNotIndexed(pays, o) == TRUE

\* PaymentSchema.index({ order_id: 1 }, { unique: true }): may a document with
\* this order_id be inserted
OrderIdUnique(pays, o) ==
  \A i \in 1..Len(pays) : pays[i].order_id # o

\* new Payment({...}).save() of the create handlers; generatePaymentId() is a
\* fresh id, modelled as the position of the document
PaymentInsert(pays, o, prov, ref) ==
  Append(pays, [id |-> Len(pays) + 1, order_id |-> o, provider |-> prov,
                ref |-> ref, status |-> "pending"])

\* an Order update that is applied only to an Order still pending and that
\* treats a second payment of a paid Order as one to hand back
OrderSetStatusTwicePaid(ords, o, st, pst) ==
  IF o \notin DOMAIN ords THEN ords
  ELSE IF ords[o].status = "paid" /\ st = "paid"
  THEN [ords EXCEPT ![o].status = "refunded"]
  ELSE [ords EXCEPT ![o].status = st, ![o].payment_status = pst]

\* Order.findOneAndUpdate({ id }, { status, payment_status }); matches nothing
\* when the id is unknown
OrderSetStatus(ords, o, st, pst) ==
  IF o \in DOMAIN ords
  THEN [ords EXCEPT ![o].status = st, ![o].payment_status = pst]
  ELSE ords

\* Order.findOneAndUpdate({ id }, { status }) of refundPayment and updateOrderStatus
OrderSetStatusOnly(ords, o, st) ==
  IF o \in DOMAIN ords THEN [ords EXCEPT ![o].status = st] ELSE ords

\* an update whose filter matches no Order document
OrderSetPaymentIdNoMatch(ords, o, pid) == ords

\* an update of the create handlers that also advances the Order
OrderSetPaymentIdAndStatus(ords, o, pid) ==
  IF o \in DOMAIN ords
  THEN [ords EXCEPT ![o].payment_id = pid, ![o].status = "preparing"]
  ELSE ords

\* Order.findOneAndUpdate({ id: order_id }, { payment_id }) of the create handlers
OrderSetPaymentId(ords, o, pid) ==
  IF o \in DOMAIN ords THEN [ords EXCEPT ![o].payment_id = pid] ELSE ords

(***************************************************************************)
(* Requests                                                                *)
(***************************************************************************)
\* a request that has finished
Done ==
  [kind |-> "done", pc |-> "done", prov |-> "none", ev |-> "none",
   order |-> NoOrder, ref |-> 0, pid |-> 0, oid |-> NoOrder, pst |-> "none",
   sigok |-> TRUE]

\* a request that has not arrived yet
Idle ==
  [kind |-> "idle", pc |-> "idle", prov |-> "none", ev |-> "none",
   order |-> NoOrder, ref |-> 0, pid |-> 0, oid |-> NoOrder, pst |-> "none",
   sigok |-> TRUE]

\* the step taken last, when no request has been handled yet
NoStep ==
  [op |-> "none", ev |-> "none", prov |-> "none", resp |-> 0, err |-> "none",
   sigok |-> TRUE, ref |-> 0, pid |-> 0, pst |-> "none"]

\* the product when its inventory is n and no order has been placed; initial
\* and sold are kept for the account: the inventory at the start and the
\* total quantity of the Orders saved
StockStart(n) == [inventory |-> n, initial |-> n, sold |-> 0]

\* a createOrder request that has not arrived yet
OIdle == [pc |-> "idle", items |-> << >>, k |-> 0, resp |-> 0]

\* private accessToken: string | null = null: a token is the provider's answer,
\* its serial number n, the time it was issued and its expires_in
NoToken == [n |-> 0, issued |-> 0, expires_in |-> 0]

\* a call of getAccessToken that has not been made yet
CIdle == [pc |-> "idle", token |-> NoToken, cached |-> FALSE, at |-> 0]

\* a service instance after construction: accessToken = null, tokenExpiry = null
AuthStart ==
  /\ time = 0
  /\ client = [accessToken |-> NoToken, tokenExpiry |-> 0]
  /\ callers = [c \in Callers |-> CIdle]

Init ==
  /\ orders = [o \in Orders |->
                 [status |-> "pending", payment_status |-> "pending", payment_id |-> 0]]
  /\ payments = << >>
  /\ reqs = [s \in Slots |-> Idle]
  /\ last = NoStep
  /\ shop = StockStart(MaxStock)
  /\ oreqs = [c \in OSlots |-> OIdle]
  /\ AuthStart


\* r is the next request to arrive
Free(r) ==
  /\ reqs[r].kind = "idle"
  /\ \A q \in Slots : q < r => reqs[q].kind # "idle"

\* the handler of slot r sends its response and ends
Finish(r, step) ==
  /\ reqs' = [reqs EXCEPT ![r] = Done]
  /\ last' = step

Step(op, prov, resp, err) ==
  [NoStep EXCEPT !.op = op, !.prov = prov, !.resp = resp, !.err = err]

(***************************************************************************)
(* createPayPalPayment / createNequiPayment                                *)
(***************************************************************************)
\* validation, Order.findOne, the status and permission checks, and the call
\* of paypalService.createOrder / nequiService.createPaymentRequest
CreatePayment(r, prov, o, valid, allowed) ==
  /\ UNCHANGED <<stockvars, authvars>>
  /\ Free(r)
  /\ UNCHANGED <<orders, payments>>
  /\ IF ~valid
     THEN Finish(r, Step("create", prov, 400, "validation"))
     ELSE IF o \notin DOMAIN orders
     THEN Finish(r, Step("create", prov, 404, "Order not found"))
     ELSE IF orders[o].status # "pending"
     THEN Finish(r, Step("create", prov, 400, "Order is not in pending status"))
     ELSE IF ~allowed
     THEN Finish(r, Step("create", prov, 403, "Access denied"))
     ELSE /\ reqs' = [reqs EXCEPT ![r] =
                        [Idle EXCEPT !.kind = "create", !.pc = "provider",
                                     !.prov = prov, !.order = o]]
          /\ UNCHANGED last

\* the provider call returns: it throws, or it returns a reference. The
\* reference is whatever the provider answers.
CreateProviderReturn(r, ok, ref) ==
  /\ UNCHANGED <<stockvars, authvars>>
  /\ reqs[r].kind = "create" /\ reqs[r].pc = "provider"
  /\ UNCHANGED <<orders, payments>>
  /\ IF ~ok
     THEN Finish(r, Step("create", reqs[r].prov, 500, "provider"))
     ELSE /\ reqs' = [reqs EXCEPT ![r].pc = "save", ![r].ref = ref]
          /\ UNCHANGED last

\* await payment.save(): rejected by the unique index on order_id when the
\* order already has a Payment document
CreateSave(r) ==
  /\ UNCHANGED <<stockvars, authvars>>
  /\ reqs[r].kind = "create" /\ reqs[r].pc = "save"
  /\ UNCHANGED orders
  /\ IF OrderIdUnique(payments, reqs[r].order)
     THEN /\ payments' = PaymentInsert(payments, reqs[r].order, reqs[r].prov, reqs[r].ref)
          /\ reqs' = [reqs EXCEPT ![r].pc = "order", ![r].pid = Len(payments) + 1]
          /\ UNCHANGED last
     ELSE /\ UNCHANGED payments
          /\ Finish(r, Step("create", reqs[r].prov, 500, "E11000 duplicate key"))

\* await Order.findOneAndUpdate({ id: order_id }, { payment_id }), then res.json
CreateOrderUpdate(r) ==
  /\ UNCHANGED <<stockvars, authvars>>
  /\ reqs[r].kind = "create" /\ reqs[r].pc = "order"
  /\ orders' = OrderSetPaymentId(orders, reqs[r].order, reqs[r].pid)
  /\ UNCHANGED payments
  /\ Finish(r, [Step("create", reqs[r].prov, 200, "none") EXCEPT
                  !.ref = reqs[r].ref, !.pid = reqs[r].pid])

(***************************************************************************)
(* Webhook signatures                                                      *)
(***************************************************************************)
\* PayPalService.generateWebhookSignature: `placeholder-signature-${Date.now()}`
PayPalGenerateWebhookSignature(body, now) == <<"placeholder-signature", now>>

\* a verification stub that accepts every signature
PayPalVerifyNothing(body, signature, now) == TRUE

\* PayPalService.verifyWebhookSignature: signature === expectedSignature
PayPalVerifyWebhookSignature(body, signature, now) ==
  signature = PayPalGenerateWebhookSignature(body, now)

\* NequiService.generateWebhookSignature: HMAC-SHA256 under the webhook secret
\* of JSON.stringify(payload) + timestamp, as a constructor (no collisions)
NequiGenerateWebhookSignature(payload, timestamp) == <<"hmac-sha256", payload, timestamp>>

\* NequiService.verifyWebhookSignature: signature === expectedSignature
NequiVerifyWebhookSignature(payload, signature, timestamp) ==
  signature = NequiGenerateWebhookSignature(payload, timestamp)

\* request bodies and signature headers a sender may present: for a body, the
\* signatures generated for it at any time, the signature generated for the
\* same reference with another event type, and a signature of no valid form
PayPalBodies == [event_type : PayPalEvents, id : Refs]
NequiBodies == [eventType : NequiEvents, paymentId : Refs]
PayPalSignatures(body) ==
  {PayPalGenerateWebhookSignature(body, t) : t \in Clock} \cup {<<"forged">>}
NequiSignatures(body, timestamp) ==
  {NequiGenerateWebhookSignature(body, t) : t \in Clock}
    \cup {NequiGenerateWebhookSignature([body EXCEPT !.eventType = "OTHER"], timestamp)}
    \cup {<<"forged">>}

(***************************************************************************)
(* The four webhook handlers                                               *)
(***************************************************************************)
\* a completed handler without the check of the current status (as the
\* capture handler is written)
CompletedAppliesAnyStatus(p) == p # NoPayment

\* handlePayPalPaymentCompleted / handleNequiPaymentCompleted: the condition
\* under which the handler updates anything
CompletedApplies(p) == p # NoPayment /\ p.status = "pending"

\* handlePayPalPaymentFailed / handleNequiPaymentFailed: likewise
FailedApplies(p) == p # NoPayment

HandlerApplies(ev, p) ==
  IF ev = "completed" THEN CompletedApplies(p) ELSE FailedApplies(p)

\* the status the handler writes to the Payment (and to Order.payment_status)
HandlerPaymentStatus(ev) == IF ev = "completed" THEN "completed" ELSE "failed"

\* a failed handler that leaves the Order's status as it was created
HandlerOrderStatusKeepsPending(ev) == IF ev = "completed" THEN "paid" ELSE "pending"

\* the status the handler writes to the Order
HandlerOrderStatus(ev) == IF ev = "completed" THEN "paid" ELSE "cancelled"

\* a switch whose default branch falls through to the failed handler
WebhookDispatchDefaultFails(r, prov, ev, ref, sigok) ==
  LET p == PaymentFindOne(payments, ref)
      step == [Step("webhook", prov, 200, "none") EXCEPT
                 !.ev = ev, !.ref = ref, !.sigok = sigok,
                 !.pid = p.id, !.pst = p.status]
  IN IF ~HandlerApplies(ev, p)
     THEN Finish(r, step)
     ELSE /\ reqs' = [reqs EXCEPT ![r] =
                        [Idle EXCEPT !.kind = "webhook", !.pc = "payment",
                                     !.prov = prov, !.ev = ev, !.ref = ref,
                                     !.pid = p.id, !.oid = p.order_id, !.pst = p.status,
                                     !.sigok = sigok]]
          /\ UNCHANGED last

\* the part of both routes after the signature check: the switch on the event
\* type and the handler's Payment.findOne
WebhookDispatch(r, prov, ev, ref, sigok) ==
  LET p == PaymentFindOne(payments, ref)
      step == [Step("webhook", prov, 200, "none") EXCEPT
                 !.ev = ev, !.ref = ref, !.sigok = sigok,
                 !.pid = p.id, !.pst = p.status]
  IN IF ev = "unhandled"
     THEN Finish(r, [step EXCEPT !.pid = 0, !.pst = "none"])
     ELSE IF ~HandlerApplies(ev, p)
     THEN Finish(r, step)
     ELSE /\ reqs' = [reqs EXCEPT ![r] =
                        [Idle EXCEPT !.kind = "webhook", !.pc = "payment",
                                     !.prov = prov, !.ev = ev, !.ref = ref,
                                     !.pid = p.id, !.oid = p.order_id, !.pst = p.status,
                                     !.sigok = sigok]]
          /\ UNCHANGED last

PayPalEvent(event_type) ==
  CASE event_type = "PAYMENT.CAPTURE.COMPLETED" -> "completed"
    [] event_type = "PAYMENT.CAPTURE.DENIED" -> "failed"
    [] OTHER -> "unhandled"

NequiEvent(eventType) ==
  CASE eventType = "PAYMENT_COMPLETED" -> "completed"
    [] eventType = "PAYMENT_FAILED" -> "failed"
    [] OTHER -> "unhandled"

\* router.post('/paypal'): `now` is Date.now() at the time of the check
PayPalWebhook(r, body, signature, now) ==
  /\ UNCHANGED <<stockvars, authvars>>
  /\ Free(r)
  /\ UNCHANGED <<orders, payments>>
  /\ IF ~PayPalVerifyWebhookSignature(body, signature, now)
     THEN Finish(r, [Step("webhook", "paypal", 400, "Invalid signature") EXCEPT
                       !.ev = PayPalEvent(body.event_type), !.ref = body.id,
                       !.sigok = (signature = PayPalGenerateWebhookSignature(body, now))])
     ELSE WebhookDispatch(r, "paypal", PayPalEvent(body.event_type), body.id,
                          signature = PayPalGenerateWebhookSignature(body, now))

\* router.post('/nequi')
NequiWebhook(r, body, signature, timestamp) ==
  /\ UNCHANGED <<stockvars, authvars>>
  /\ Free(r)
  /\ UNCHANGED <<orders, payments>>
  /\ IF ~NequiVerifyWebhookSignature(body, signature, timestamp)
     THEN Finish(r, [Step("webhook", "nequi", 400, "Invalid signature") EXCEPT
                       !.ev = NequiEvent(body.eventType), !.ref = body.paymentId,
                       !.sigok = (signature = NequiGenerateWebhookSignature(body, timestamp))])
     ELSE WebhookDispatch(r, "nequi", NequiEvent(body.eventType), body.paymentId,
                          signature = NequiGenerateWebhookSignature(body, timestamp))

\* a route that answers 200 once the Payment is written and does not wait
\* for the Order update
WebhookAnswersAfterPaymentUpdate(r) ==
  /\ UNCHANGED <<stockvars, authvars>>
  /\ reqs[r].kind = "webhook" /\ reqs[r].pc = "payment"
  /\ payments' = PaymentSetStatus(payments, reqs[r].pid, HandlerPaymentStatus(reqs[r].ev))
  /\ UNCHANGED orders
  /\ Finish(r, [Step("webhook", reqs[r].prov, 200, "applied") EXCEPT
                  !.ev = reqs[r].ev, !.ref = reqs[r].ref, !.pid = reqs[r].pid,
                  !.pst = reqs[r].pst, !.sigok = reqs[r].sigok])

\* await Payment.findOneAndUpdate({ id: payment.id }, { status, ... })
WebhookPaymentUpdate(r) ==
  /\ UNCHANGED <<stockvars, authvars>>
  /\ reqs[r].kind = "webhook" /\ reqs[r].pc = "payment"
  /\ payments' = PaymentSetStatus(payments, reqs[r].pid, HandlerPaymentStatus(reqs[r].ev))
  /\ reqs' = [reqs EXCEPT ![r].pc = "order"]
  /\ UNCHANGED <<orders, last>>

\* await Order.findOneAndUpdate({ id: payment.order_id }, { status, payment_status }),
\* then the route answers 200
WebhookOrderUpdate(r) ==
  /\ UNCHANGED <<stockvars, authvars>>
  /\ reqs[r].kind = "webhook" /\ reqs[r].pc = "order"
  /\ orders' = OrderSetStatus(orders, reqs[r].oid, HandlerOrderStatus(reqs[r].ev),
                              HandlerPaymentStatus(reqs[r].ev))
  /\ UNCHANGED payments
  /\ Finish(r, [Step("webhook", reqs[r].prov, 200, "applied") EXCEPT
                  !.ev = reqs[r].ev, !.ref = reqs[r].ref, !.pid = reqs[r].pid,
                  !.pst = reqs[r].pst, !.sigok = reqs[r].sigok])

(***************************************************************************)
(* capturePayPalPayment                                                    *)
(***************************************************************************)
\* what paypalService.captureOrder does: it throws (network error, timeout,
\* non-2xx answer) or returns the provider's capture with its status
CaptureOutcomes == {"error", "COMPLETED", "OTHER"}

\* the call of paypalService.captureOrder and, when it reports COMPLETED, the
\* Payment.findOne that follows
CapturePayPalPayment(r, ref, outcome) ==
  LET p == PaymentFindOne(payments, ref)
      step == [Step("capture", "paypal", 200, "none") EXCEPT !.ref = ref, !.ev = outcome]
  IN /\ Free(r)
     /\ UNCHANGED <<stockvars, authvars>>
     /\ UNCHANGED <<orders, payments>>
     /\ IF outcome = "error"
        THEN Finish(r, [step EXCEPT !.resp = 500, !.err = "provider"])
        ELSE IF outcome # "COMPLETED" \/ p = NoPayment
        THEN Finish(r, step)
        ELSE /\ reqs' = [reqs EXCEPT ![r] =
                           [Idle EXCEPT !.kind = "capture", !.pc = "payment",
                                        !.prov = "paypal", !.ev = "completed", !.ref = ref,
                                        !.pid = p.id, !.oid = p.order_id, !.pst = p.status]]
             /\ UNCHANGED last

\* await Payment.findOneAndUpdate({ id: payment.id }, { status: 'completed', ... })
CapturePaymentUpdate(r) ==
  /\ UNCHANGED <<stockvars, authvars>>
  /\ reqs[r].kind = "capture" /\ reqs[r].pc = "payment"
  /\ payments' = PaymentSetStatus(payments, reqs[r].pid, "completed")
  /\ reqs' = [reqs EXCEPT ![r].pc = "order"]
  /\ UNCHANGED <<orders, last>>

\* await Order.findOneAndUpdate({ id: payment.order_id }, { status: 'paid', ... }),
\* then res.json(captureData)
CaptureOrderUpdate(r) ==
  /\ UNCHANGED <<stockvars, authvars>>
  /\ reqs[r].kind = "capture" /\ reqs[r].pc = "order"
  /\ orders' = OrderSetStatus(orders, reqs[r].oid, "paid", "completed")
  /\ UNCHANGED payments
  /\ Finish(r, [Step("capture", "paypal", 200, "applied") EXCEPT
                  !.ev = "COMPLETED", !.ref = reqs[r].ref, !.pid = reqs[r].pid,
                  !.pst = reqs[r].pst])

(***************************************************************************)
(* refundPayment                                                           *)
(***************************************************************************)
\* validation, the admin check, Payment.findOne({ id: payment_id }) and the call
\* of paypalService.refundOrder / nequiService.refundPayment. No status of the
\* Payment or of the Order is looked at. (The branch for other providers is
\* not reachable: the create handlers write only 'paypal' and 'nequi'.)
RefundPayment(r, payment_id, valid, admin) ==
  LET p == PaymentFindById(payments, payment_id)
  IN /\ Free(r)
     /\ UNCHANGED <<stockvars, authvars>>
     /\ UNCHANGED <<orders, payments>>
     /\ IF ~valid
        THEN Finish(r, Step("refund", "none", 400, "validation"))
        ELSE IF ~admin
        THEN Finish(r, Step("refund", "none", 403, "Access denied"))
        ELSE IF p = NoPayment
        THEN Finish(r, Step("refund", "none", 404, "Payment not found"))
        ELSE /\ reqs' = [reqs EXCEPT ![r] =
                           [Idle EXCEPT !.kind = "refund", !.pc = "provider",
                                        !.prov = p.provider, !.ref = p.ref,
                                        !.pid = p.id, !.oid = p.order_id, !.pst = p.status]]
             /\ UNCHANGED last

\* a refund handler that swallows the provider's error and goes on
RefundProviderErrorIgnored(r, ok) ==
  /\ UNCHANGED <<stockvars, authvars>>
  /\ reqs[r].kind = "refund" /\ reqs[r].pc = "provider"
  /\ UNCHANGED <<orders, payments, last>>
  /\ reqs' = [reqs EXCEPT ![r].pc = "payment",
                          ![r].ev = IF ok THEN "returned" ELSE "thrown"]

\* the provider's refund call returns (refundResult is set, ev "returned") or
\* throws (the catch block answers 500)
RefundProviderReturn(r, ok) ==
  /\ UNCHANGED <<stockvars, authvars>>
  /\ reqs[r].kind = "refund" /\ reqs[r].pc = "provider"
  /\ UNCHANGED <<orders, payments>>
  /\ IF ok
     THEN /\ reqs' = [reqs EXCEPT ![r].pc = "payment", ![r].ev = "returned"]
          /\ UNCHANGED last
     ELSE Finish(r, [Step("refund", reqs[r].prov, 500, "provider") EXCEPT
                       !.pid = reqs[r].pid, !.pst = reqs[r].pst])

\* await Payment.findOneAndUpdate({ id: payment_id }, { status: 'refunded', ... })
RefundPaymentUpdate(r) ==
  /\ UNCHANGED <<stockvars, authvars>>
  /\ reqs[r].kind = "refund" /\ reqs[r].pc = "payment"
  /\ payments' = PaymentSetStatus(payments, reqs[r].pid, "refunded")
  /\ reqs' = [reqs EXCEPT ![r].pc = "order"]
  /\ UNCHANGED <<orders, last>>

\* await Order.findOneAndUpdate({ id: payment.order_id }, { status: 'refunded' }),
\* then res.json(refundResult); payment_status is not written
RefundOrderUpdate(r) ==
  /\ UNCHANGED <<stockvars, authvars>>
  /\ reqs[r].kind = "refund" /\ reqs[r].pc = "order"
  /\ orders' = OrderSetStatusOnly(orders, reqs[r].oid, "refunded")
  /\ UNCHANGED payments
  /\ Finish(r, [Step("refund", reqs[r].prov, 200, "applied") EXCEPT
                  !.pid = reqs[r].pid, !.pst = reqs[r].pst])

(***************************************************************************)
(* updateOrderStatus (admin)                                               *)
(***************************************************************************)
\* validation (status is one of the enum), the admin check and one
\* Order.findOneAndUpdate({ id }, { status, ... }): any enum value is written
\* over any current status
UpdateOrderStatus(r, o, status, valid, admin) ==
  /\ UNCHANGED <<stockvars, authvars>>
  /\ Free(r)
  /\ UNCHANGED payments
  /\ IF ~valid
     THEN /\ UNCHANGED orders
          /\ Finish(r, Step("update", "none", 400, "validation"))
     ELSE IF ~admin
     THEN /\ UNCHANGED orders
          /\ Finish(r, Step("update", "none", 403, "Access denied"))
     ELSE IF o \notin DOMAIN orders
     THEN /\ UNCHANGED orders
          /\ Finish(r, Step("update", "none", 404, "Order not found"))
     ELSE /\ orders' = OrderSetStatusOnly(orders, o, status)
          /\ Finish(r, [Step("update", "none", 200, "applied") EXCEPT !.ev = status])

(***************************************************************************)
(* The system                                                              *)
(***************************************************************************)
Next ==
  \E r \in Slots :
    \/ \E prov \in Providers, o \in Orders \cup {NoOrder} :
         CreatePayment(r, prov, o, TRUE, TRUE)
    \/ \E prov \in Providers, o \in Orders, valid \in BOOLEAN :
         CreatePayment(r, prov, o, valid, FALSE)
    \/ \E ok \in BOOLEAN, ref \in Refs : CreateProviderReturn(r, ok, ref)
    \/ CreateSave(r)
    \/ CreateOrderUpdate(r)
    \/ \E body \in PayPalBodies, now \in Clock : \E signature \in PayPalSignatures(body) :
         PayPalWebhook(r, body, signature, now)
    \/ \E body \in NequiBodies, timestamp \in Clock :
         \E signature \in NequiSignatures(body, timestamp) :
         NequiWebhook(r, body, signature, timestamp)
    \/ WebhookPaymentUpdate(r)
    \/ WebhookOrderUpdate(r)
    \/ \E ref \in Refs, outcome \in CaptureOutcomes : CapturePayPalPayment(r, ref, outcome)
    \/ CapturePaymentUpdate(r)
    \/ CaptureOrderUpdate(r)
    \/ \E payment_id \in 1..Cardinality(Orders) + 1 : RefundPayment(r, payment_id, TRUE, TRUE)
    \/ \E valid \in BOOLEAN : RefundPayment(r, 1, valid, FALSE)
    \/ \E ok \in BOOLEAN : RefundProviderReturn(r, ok)
    \/ RefundPaymentUpdate(r)
    \/ RefundOrderUpdate(r)
    \/ \E o \in Orders \cup {NoOrder}, status \in OrderStatus :
         UpdateOrderStatus(r, o, status, TRUE, TRUE)
    \/ \E valid \in BOOLEAN : UpdateOrderStatus(r, 1, "pending", valid, FALSE)

Spec == Init /\ [][Next]_vars

TypeOK ==
  /\ \A o \in Orders : /\ orders[o].status \in OrderStatus
                       /\ orders[o].payment_status \in PaymentStatus
                       /\ orders[o].payment_id \in 0..Len(payments)
  /\ \A i \in 1..Len(payments) : /\ payments[i].id = i
                                 /\ payments[i].order_id \in Orders
                                 /\ payments[i].provider \in Providers
                                 /\ payments[i].ref \in Refs
                                 /\ payments[i].status \in PaymentStatus

(***************************************************************************)
(* A handler run from its first to its last step with no other handler in  *)
(* between, as a function of the store                                     *)
(***************************************************************************)
\* the store of the current state
Store == [o |-> orders, p |-> payments]

\* a signature-valid completed / failed webhook for `ref`:
\* handle{PayPal,Nequi}Payment{Completed,Failed}
RunWebhook(db, ev, ref) ==
  LET p == PaymentFindOne(db.p, ref)
  IN IF HandlerApplies(ev, p)
     THEN [p |-> PaymentSetStatus(db.p, p.id, HandlerPaymentStatus(ev)),
           o |-> OrderSetStatus(db.o, p.order_id, HandlerOrderStatus(ev),
                                HandlerPaymentStatus(ev))]
     ELSE db

\* createPayPalPayment / createNequiPayment for order o when the provider
\* answers with reference ref
RunCreate(db, o, prov, ref) ==
  IF o \in DOMAIN db.o /\ db.o[o].status = "pending" /\ OrderIdUnique(db.p, o)
  THEN [p |-> PaymentInsert(db.p, o, prov, ref),
        o |-> OrderSetPaymentId(db.o, o, Len(db.p) + 1)]
  ELSE db

\* a capture whose catch block marks the Payment failed
RunCaptureMarksFailed(db, ref, outcome) ==
  LET p == PaymentFindOne(db.p, ref)
  IN IF outcome = "COMPLETED" /\ p # NoPayment
     THEN [p |-> PaymentSetStatus(db.p, p.id, "completed"),
           o |-> OrderSetStatus(db.o, p.order_id, "paid", "completed")]
     ELSE IF outcome = "error" /\ p # NoPayment
     THEN [p |-> PaymentSetStatus(db.p, p.id, "failed"), o |-> db.o]
     ELSE db

\* capturePayPalPayment for `ref` when captureOrder ends with `outcome`
RunCapture(db, ref, outcome) ==
  LET p == PaymentFindOne(db.p, ref)
  IN IF outcome = "COMPLETED" /\ p # NoPayment
     THEN [p |-> PaymentSetStatus(db.p, p.id, "completed"),
           o |-> OrderSetStatus(db.o, p.order_id, "paid", "completed")]
     ELSE db

\* the statuses of all Payments and Orders of a store
Statuses(db) ==
  [pay |-> [i \in 1..Len(db.p) |-> db.p[i].status],
   ord |-> [o \in DOMAIN db.o |-> db.o[o].status]]

\* the same webhook delivered n times, one delivery after the other
RECURSIVE Deliver(_, _, _, _)
Deliver(db, ev, ref, n) ==
  IF n = 0 THEN db ELSE Deliver(RunWebhook(db, ev, ref), ev, ref, n - 1)

\* how many times a webhook is redelivered in the idempotence check
MaxDeliveries == 3

\* the step just taken finished a request (its response is in last')
Answered == \E r \in Slots : reqs[r] # Done /\ reqs'[r] = Done

\* the step just taken is a step of request r
StepOf(r) == reqs'[r] # reqs[r]

StoreUnchanged == orders' = orders /\ payments' = payments

(***************************************************************************)
(* C1: delivering the same signature-valid webhook (completed or failed,   *)
(* same reference) N >= 1 times in a row leaves every Payment status and   *)
(* Order status as one delivery leaves them, from any reachable store.     *)
(***************************************************************************)
C1_DuplicateDeliveryIdempotent ==
  \A ev \in {"completed", "failed"}, ref \in Refs, n \in 1..MaxDeliveries :
    Statuses(Deliver(Store, ev, ref, n)) = Statuses(Deliver(Store, ev, ref, 1))

\* a failed webhook has been delivered again to a Payment it had already
\* failed; Payment and Order are as the first delivery left them
C1_Witness ==
  /\ last.op = "webhook" /\ last.sigok /\ last.resp = 200
  /\ last.ev = "failed" /\ last.pst = "failed"
  /\ payments[last.pid].status = "failed"
  /\ orders[payments[last.pid].order_id].status = "cancelled"

(***************************************************************************)
(* C2: an order never has more than one pending Payment; of the creation   *)
(* requests for one order that the provider accepted, only one gets past   *)
(* the save and answers 200, every other one fails at the save (500,       *)
(* duplicate key) and adds no Payment.                                     *)
(***************************************************************************)
PendingOf(o) ==
  {i \in 1..Len(payments) : payments[i].order_id = o /\ payments[i].status = "pending"}

C2_AtMostOnePending ==
  /\ \A o \in Orders : Cardinality(PendingOf(o)) <= 1
  /\ \A q1, q2 \in Slots :
       (/\ q1 # q2
        /\ reqs[q1].kind = "create" /\ reqs[q2].kind = "create"
        /\ reqs[q1].order = reqs[q2].order)
       => ~(reqs[q1].pc = "order" /\ reqs[q2].pc = "order")

C2_SaveStep ==
  \A r \in Slots :
    (reqs[r].kind = "create" /\ StepOf(r)) =>
      /\ (reqs[r].pc = "save" /\ \E i \in 1..Len(payments) :
                                    payments[i].order_id = reqs[r].order)
           => (StoreUnchanged /\ last'.op = "create" /\ last'.resp = 500)
      /\ (reqs[r].pc = "save" /\ \A i \in 1..Len(payments) :
                                    payments[i].order_id # reqs[r].order)
           => (Len(payments') = Len(payments) + 1 /\ reqs'[r].pc = "order")
      /\ reqs[r].pc = "order" => (last'.op = "create" /\ last'.resp = 200)

C2_OneActivePaymentPerOrder ==
  [](C2_AtMostOnePending) /\ [][C2_SaveStep]_vars

\* two creation requests for one order ran concurrently: one has failed at the
\* save while the other, which saved the Payment, is still in flight
C2_Witness ==
  /\ last.op = "create" /\ last.resp = 500 /\ last.err = "E11000 duplicate key"
  /\ \E q \in Slots : /\ reqs[q].kind = "create" /\ reqs[q].pc = "order"
                      /\ payments[reqs[q].pid].order_id = reqs[q].order
                      /\ payments[reqs[q].pid].status = "pending"

(***************************************************************************)
(* C3: no Payment ever changes status from completed to failed or from     *)
(* failed to completed.                                                    *)
(***************************************************************************)
C3_NoCompletedFailedFlip ==
  [][\A i \in 1..Len(payments) :
       /\ ~(payments[i].status = "completed" /\ payments'[i].status = "failed")
       /\ ~(payments[i].status = "failed" /\ payments'[i].status = "completed")]_vars

C5_FailedThenCompleted ==
  \A ref \in Refs :
    LET p == PaymentFindOne(payments, ref)
    IN (p # NoPayment /\ p.status = "pending" /\ orders[p.order_id].status = "pending")
       => LET failed == RunWebhook(Store, "failed", ref)
              stale == RunWebhook(failed, "completed", ref)
          IN /\ failed.p[p.id].status = "failed"
             /\ failed.o[p.order_id].status = "cancelled"
             /\ stale = failed

\* the step of a completed webhook whose lookup finds the Payment failed
C5_StaleStep ==
  (Answered /\ last'.op = "webhook" /\ last'.ev = "completed" /\ last'.pst = "failed")
  => (StoreUnchanged /\ last'.err # "applied")

C6_ThenWebhook ==
  \A ref \in Refs :
    LET p == PaymentFindOne(payments, ref)
    IN (p # NoPayment /\ p.status = "pending")
       => LET captured == RunCapture(Store, ref, "error")
              paid == RunWebhook(captured, "completed", ref)
          IN /\ captured = Store
             /\ paid.p[p.id].status = "completed"
             /\ paid.o[p.order_id].status = "paid"

\* the step of a capture request whose provider call throws
C6_TimeoutStep ==
  (Answered /\ last'.op = "capture" /\ last'.ev = "error")
  => (StoreUnchanged /\ last'.resp = 500)

C6_CaptureTimeoutHarmless ==
  [](C6_ThenWebhook) /\ [][C6_TimeoutStep]_vars

\* a capture has timed out on a pending Payment, which is still pending
C6_Witness ==
  /\ last.op = "capture" /\ last.ev = "error" /\ last.resp = 500
  /\ PaymentFindOne(payments, last.ref) # NoPayment
  /\ PaymentFindOne(payments, last.ref).status = "pending"
  /\ orders[PaymentFindOne(payments, last.ref).order_id].status = "pending"

(***************************************************************************)
(* C7: a webhook whose signature does not verify, on either route, is      *)
(* answered 400 in its first step and changes no Payment and no Order; no  *)
(* handler ever runs for it.                                               *)
(***************************************************************************)
C7_NoUnverifiedHandler ==
  \A r \in Slots : reqs[r].kind = "webhook" => reqs[r].sigok

\* the step that answers a webhook whose signature is not the expected one
C7_RejectStep ==
  (Answered /\ last'.op = "webhook" /\ ~last'.sigok)
  => (StoreUnchanged /\ last'.resp = 400)

C7_BadSignatureMutatesNothing ==
  [](C7_NoUnverifiedHandler) /\ [][C7_RejectStep]_vars

\* a webhook claiming COMPLETED for a pending Payment has been rejected for its
\* signature; the Payment is still pending and its Order still pending
C7_Witness ==
  /\ last.op = "webhook" /\ ~last.sigok /\ last.resp = 400 /\ last.ev = "completed"
  /\ PaymentFindOne(payments, last.ref) # NoPayment
  /\ PaymentFindOne(payments, last.ref).status = "pending"
  /\ PaymentFindOne(payments, last.ref).provider = last.prov
  /\ orders[PaymentFindOne(payments, last.ref).order_id].status = "pending"

(***************************************************************************)
(* C8: a refund request for a Payment whose Order is pending fails and     *)
(* leaves the Payment status and the Order status unchanged.               *)
(***************************************************************************)
C8_RefundOfUnpaidOrderFails ==
  [][\A r \in Slots :
       (/\ reqs[r].kind = "refund" /\ StepOf(r)
        /\ reqs[r].oid \in Orders
        /\ orders[reqs[r].oid].status = "pending")
       => /\ Statuses([o |-> orders', p |-> payments']) = Statuses(Store)
          /\ Answered => last'.resp # 200]_vars

(***************************************************************************)
(* C9: a refund request sets the Payment and the Order to refunded only    *)
(* after the provider's refund call has returned; when that call throws,   *)
(* the request ends with 500 and no Payment and no Order is changed.       *)
(***************************************************************************)
C9_RefundStep ==
  \A r \in Slots :
    (reqs[r].kind = "refund" /\ StepOf(r)) =>
      /\ ~StoreUnchanged => reqs[r].ev = "returned"
      /\ (Answered /\ last'.err = "provider")
           => (StoreUnchanged /\ last'.resp = 500 /\ reqs[r].pc = "provider")
      /\ (reqs[r].pc = "provider" /\ ~Answered) => reqs'[r].ev = "returned"
      /\ reqs[r].pc = "payment" => payments'[reqs[r].pid].status = "refunded"
      /\ reqs[r].pc = "order"
           => (orders'[reqs[r].oid].status = "refunded" /\ last'.resp = 200)

C9_RefundOnlyAfterProviderConfirms == [][C9_RefundStep]_vars

\* the refund of a completed Payment of a paid Order has been answered 200:
\* Payment and Order are refunded
C9_Witness ==
  /\ last.op = "refund" /\ last.resp = 200 /\ last.pst = "completed"
  /\ payments[last.pid].status = "refunded"
  /\ orders[payments[last.pid].order_id].status = "refunded"

(***************************************************************************)
(* C10: every change of an Order's status follows one of the edges         *)
(* pending -> paid, pending -> cancelled, paid -> refunded.                *)
(***************************************************************************)
LegalOrderEdges ==
  {<<"pending", "paid">>, <<"pending", "cancelled">>, <<"paid", "refunded">>}

C10_OrderEdgesLegal ==
  [][\A o \in Orders :
       orders'[o].status # orders[o].status
         => <<orders[o].status, orders'[o].status>> \in LegalOrderEdges]_vars

(***************************************************************************)
(* C11: a Payment becomes refunded only from completed, and a refunded     *)
(* Payment never changes status again.                                     *)
(***************************************************************************)
C11_RefundedOnlyFromCompletedAndFinal ==
  [][\A i \in 1..Len(payments) :
       /\ (payments'[i].status = "refunded" /\ payments[i].status # "refunded")
            => payments[i].status = "completed"
       /\ payments[i].status = "refunded" => payments'[i].status = "refunded"]_vars

(***************************************************************************)
(* C12: a webhook or a capture result whose provider reference is carried  *)
(* by no Payment ends in its first step: it starts no handler update, adds *)
(* no Payment and changes no Payment and no Order; every update a webhook  *)
(* or capture request makes is to the Payment carrying its reference.      *)
(***************************************************************************)
\* no Payment document carries provider reference ref
UnknownProviderRef(ref) == \A i \in 1..Len(payments) : payments[i].ref # ref

C12_UnknownRefStep ==
  \A r \in Slots :
    (StepOf(r) /\ reqs[r].kind \in {"idle", "webhook", "capture"}
               /\ (reqs[r].kind = "idle"
                     => \/ reqs'[r].kind \in {"webhook", "capture"}
                        \/ reqs'[r] = Done /\ last'.op \in {"webhook", "capture"}))
    => /\ Len(payments') = Len(payments)
       /\ (reqs[r].kind = "idle" /\ reqs'[r] # Done) => ~UnknownProviderRef(reqs'[r].ref)
       /\ (reqs[r].kind = "idle" /\ reqs'[r] = Done /\ UnknownProviderRef(last'.ref))
            => (StoreUnchanged /\ last'.pid = 0 /\ last'.err # "applied")
       /\ reqs[r].kind # "idle"
            => /\ reqs[r].pid \in 1..Len(payments)
               /\ payments[reqs[r].pid].ref = reqs[r].ref

C13_OnlyMappedEventsInHandlers ==
  \A r \in Slots :
    /\ reqs[r].kind = "webhook" => reqs[r].ev \in {"completed", "failed"}
    /\ reqs[r].kind = "capture" => reqs[r].ev = "completed"

C13_UnmappedStep ==
  /\ (Answered /\ last'.op = "webhook" /\ last'.ev = "unhandled")
       => (StoreUnchanged /\ \A r \in Slots : StepOf(r) => reqs[r].kind = "idle")
  /\ (Answered /\ last'.op = "capture" /\ last'.ev \notin {"COMPLETED"})
       => (StoreUnchanged /\ \A r \in Slots : StepOf(r) => reqs[r].kind = "idle")

C13_UnmappedEventsIgnored ==
  [](C13_OnlyMappedEventsInHandlers) /\ [][C13_UnmappedStep]_vars

\* a signature-valid webhook of an unlisted event type has been answered for
\* the reference of a pending Payment, which is still pending
C13_Witness ==
  /\ last.op = "webhook" /\ last.sigok /\ last.ev = "unhandled" /\ last.resp = 200
  /\ ~UnknownProviderRef(last.ref)
  /\ PaymentFindOne(payments, last.ref).status = "pending"
  /\ orders[PaymentFindOne(payments, last.ref).order_id].status = "pending"

(***************************************************************************)
(* C14: completed webhooks and completed captures racing for one pending   *)
(* Payment. RaceSpec starts right after a creation has recorded a pending  *)
(* Payment and lets up to MaxReqs signature-valid completed webhooks (of   *)
(* either route) and captures answered COMPLETED for its reference run     *)
(* with their steps interleaved in every order.                            *)
(***************************************************************************)
RaceInit ==
  /\ \E o \in Orders, prov \in Providers, ref \in Refs :
       LET created == RunCreate([o |-> [q \in Orders |->
                                          [status |-> "pending", payment_status |-> "pending",
                                           payment_id |-> 0]],
                                 p |-> << >>], o, prov, ref)
       IN orders = created.o /\ payments = created.p
  /\ reqs = [s \in Slots |-> Idle]
  /\ last = NoStep
  /\ shop = StockStart(MaxStock)
  /\ oreqs = [c \in OSlots |-> OIdle]
  /\ AuthStart

RaceNext ==
  \E r \in Slots :
    \/ \E now \in Clock :
         LET body == [event_type |-> "PAYMENT.CAPTURE.COMPLETED", id |-> payments[1].ref]
         IN PayPalWebhook(r, body, PayPalGenerateWebhookSignature(body, now), now)
    \/ \E timestamp \in Clock :
         LET body == [eventType |-> "PAYMENT_COMPLETED", paymentId |-> payments[1].ref]
         IN NequiWebhook(r, body, NequiGenerateWebhookSignature(body, timestamp), timestamp)
    \/ WebhookPaymentUpdate(r)
    \/ WebhookOrderUpdate(r)
    \/ CapturePayPalPayment(r, payments[1].ref, "COMPLETED")
    \/ CapturePaymentUpdate(r)
    \/ CaptureOrderUpdate(r)

RaceSpec == RaceInit /\ [][RaceNext]_vars

\* once every request that has arrived is answered, the Payment is completed
\* and its Order paid, whatever the order of the steps was
C14_FinalState ==
  (/\ \E r \in Slots : reqs[r] = Done
   /\ \A r \in Slots : reqs[r].kind \in {"idle", "done"})
  => /\ payments[1].status = "completed"
     /\ orders[payments[1].order_id].status = "paid"
     /\ orders[payments[1].order_id].payment_status = "completed"

\* the only status changes are pending -> completed and pending -> paid, so
\* each happens at most once
C14_ChangeOnce ==
  /\ \A o \in Orders :
       orders'[o].status # orders[o].status
         => (orders[o].status = "pending" /\ orders'[o].status = "paid")
  /\ payments'[1].status # payments[1].status
       => (payments[1].status = "pending" /\ payments'[1].status = "completed")

C14_RaceConverges == [](C14_FinalState) /\ [][C14_ChangeOnce]_vars

\* a webhook that had read the Payment pending has finished (Payment completed,
\* Order paid) while a capture that had also read it pending is still before
\* its own Order update
C14_Witness ==
  /\ last.op = "webhook" /\ last.err = "applied" /\ last.pst = "pending"
  /\ payments[1].status = "completed"
  /\ orders[payments[1].order_id].status = "paid"
  /\ \E q \in Slots : /\ reqs[q].kind = "capture" /\ reqs[q].pc = "order"
                      /\ reqs[q].pst = "pending"

(***************************************************************************)
(* C15: the provider's refund operation is called at most once per         *)
(* Payment: a refund request for a Payment that is already refunded, or    *)
(* for which another refund request is running, sends no refund to the     *)
(* provider.                                                               *)
(***************************************************************************)
\* request r goes from arrival to its provider call in this step
RefundSent(r) == reqs[r].kind = "idle" /\ reqs'[r].kind = "refund"

C15_RefundSentAtMostOnce ==
  [][\A r \in Slots :
       RefundSent(r)
       => /\ payments[reqs'[r].pid].status # "refunded"
          /\ \A q \in Slots \ {r} :
               ~(reqs[q].kind = "refund" /\ reqs[q].pid = reqs'[r].pid)]_vars

(***************************************************************************)
(* C16: under any interleaving of creations, completed and failed webhook  *)
(* handlers and captures (PaymentFlowSpec: no refund, no admin update), no *)
(* state has an Order paid while its Payment is pending or failed.         *)
(***************************************************************************)
PaymentFlowNext ==
  \E r \in Slots :
    \/ \E prov \in Providers, o \in Orders \cup {NoOrder} :
         CreatePayment(r, prov, o, TRUE, TRUE)
    \/ \E ok \in BOOLEAN, ref \in Refs : CreateProviderReturn(r, ok, ref)
    \/ CreateSave(r)
    \/ CreateOrderUpdate(r)
    \/ \E body \in PayPalBodies, now \in Clock :
         PayPalWebhook(r, body, PayPalGenerateWebhookSignature(body, now), now)
    \/ \E body \in NequiBodies, timestamp \in Clock :
         NequiWebhook(r, body, NequiGenerateWebhookSignature(body, timestamp), timestamp)
    \/ WebhookPaymentUpdate(r)
    \/ WebhookOrderUpdate(r)
    \/ \E ref \in Refs, outcome \in CaptureOutcomes : CapturePayPalPayment(r, ref, outcome)
    \/ CapturePaymentUpdate(r)
    \/ CaptureOrderUpdate(r)

PaymentFlowSpec == Init /\ [][PaymentFlowNext]_vars

C16_PaidOnlyWithCompletedPayment ==
  \A i \in 1..Len(payments) :
    orders[payments[i].order_id].status = "paid"
      => payments[i].status \notin {"pending", "failed"}

(***************************************************************************)
(* C17: a creation request for an Order that already has a pending Payment *)
(* fails at once: it sends no creation request to the provider and adds no *)
(* Payment.                                                                *)
(***************************************************************************)
C17_CreateFailsFast ==
  [][\A r \in Slots :
       /\ (reqs[r].kind = "idle" /\ reqs'[r].kind = "create")
            => PendingOf(reqs'[r].order) = {}
       /\ (reqs[r].kind = "create" /\ StepOf(r) /\ PendingOf(reqs[r].order) # {})
            => Len(payments') = Len(payments)]_vars

(***************************************************************************)
(* C18: a signature-valid failed webhook applied to a pending Payment of a *)
(* pending Order leaves the Payment failed and the Order cancelled.        *)
(***************************************************************************)
C18_FailedRun ==
  \A ref \in Refs :
    LET p == PaymentFindOne(payments, ref)
    IN (p # NoPayment /\ p.status = "pending" /\ orders[p.order_id].status = "pending")
       => LET failed == RunWebhook(Store, "failed", ref)
          IN /\ failed.p[p.id].status = "failed"
             /\ failed.o[p.order_id].status = "cancelled"
             /\ failed.o[p.order_id].payment_status = "failed"
             /\ \A i \in 1..Len(payments) : i # p.id => failed.p[i] = payments[i]
             /\ \A o \in Orders : o # p.order_id => failed.o[o] = orders[o]

\* the two updates of a running failed handler
C18_FailedStep ==
  \A r \in Slots :
    (StepOf(r) /\ reqs[r].kind = "webhook" /\ reqs[r].ev = "failed") =>
      /\ reqs[r].pc = "payment" => payments'[reqs[r].pid].status = "failed"
      /\ reqs[r].pc = "order" => /\ orders'[reqs[r].oid].status = "cancelled"
                                 /\ orders'[reqs[r].oid].payment_status = "failed"

C18_FailureCancelsOrder == [](C18_FailedRun) /\ [][C18_FailedStep]_vars

\* a failed webhook has been applied to a Payment it found pending: the
\* Payment is failed and its Order cancelled
C18_Witness ==
  /\ last.op = "webhook" /\ last.sigok /\ last.ev = "failed" /\ last.err = "applied"
  /\ last.pst = "pending"
  /\ payments[last.pid].status = "failed"
  /\ orders[payments[last.pid].order_id].status = "cancelled"
  /\ orders[payments[last.pid].order_id].payment_status = "failed"

(***************************************************************************)
(* C20: on both webhook routes the 200 answer is sent only for a verified  *)
(* signature and only when every update of the event is done: either the   *)
(* event caused none, or the answer comes with the handler's last update   *)
(* (the Order update, after the Payment update). Every answer of a webhook *)
(* route comes after the verification: 400 exactly when it failed.         *)
(***************************************************************************)
C20_AnswerStep ==
  \A r \in Slots :
    (StepOf(r) /\ reqs'[r] = Done /\ last'.op = "webhook") =>
      /\ last'.resp \in {200, 400}
      /\ last'.resp = 400 <=> ~last'.sigok
      /\ last'.resp = 200 =>
           \/ /\ reqs[r].kind = "idle" /\ StoreUnchanged
              /\ ~HandlerApplies(last'.ev, PaymentFindOne(payments, last'.ref))
                   \/ last'.ev = "unhandled"
           \/ /\ reqs[r].kind = "webhook" /\ reqs[r].pc = "order"
              /\ payments' = payments
              /\ orders'[reqs[r].oid].status = HandlerOrderStatus(reqs[r].ev)

\* a webhook request that has written its Payment has not answered yet
C20_NoAnswerBeforeOrderUpdate ==
  \A r \in Slots :
    (reqs[r].kind = "webhook" /\ StepOf(r) /\ reqs[r].pc = "payment")
      => (reqs'[r].pc = "order" /\ last' = last)

C20_AnswerAfterVerificationAndUpdates ==
  [][C20_AnswerStep /\ C20_NoAnswerBeforeOrderUpdate]_vars

\* the Nequi route has answered 200 to a completed event after both updates
C20_Witness ==
  /\ last.op = "webhook" /\ last.prov = "nequi" /\ last.resp = 200 /\ last.sigok
  /\ last.ev = "completed" /\ last.err = "applied"
  /\ payments[last.pid].status = "completed"
  /\ orders[payments[last.pid].order_id].status = "paid"

(***************************************************************************)
(* createOrder and the inventory of a product                              *)
(*                                                                         *)
(* One product with tracked inventory (Product.inventory is a number, not  *)
(* null). An item of a request names this product or a product that does   *)
(* not exist, with a quantity the validator accepts (an integer >= 1).     *)
(***************************************************************************)
TrackedProduct == 1
NoProduct == 0

Items == [product_id : {TrackedProduct, NoProduct}, quantity : 1..MaxQty]

\* the items arrays of a request: 1..MaxItems items
ItemLists == UNION {[1..n -> Items] : n \in 1..MaxItems}

\* total quantity of the tracked product in the items of an order
RECURSIVE Quantity(_, _)
Quantity(items, n) ==
  IF n = 0 THEN 0
  ELSE Quantity(items, n - 1)
       + (IF items[n].product_id = TrackedProduct THEN items[n].quantity ELSE 0)

\* !(product.inventory !== null && product.inventory < item.quantity)
InStock(inventory, quantity) == ~(inventory < quantity)

ODone(resp) == [pc |-> "done", items |-> << >>, k |-> 0, resp |-> resp]

\* the request arrives: validationResult and the test of the items array
CreateOrder(c, items, valid) ==
  /\ oreqs[c].pc = "idle"
  /\ \A d \in OSlots : d < c => oreqs[d].pc # "idle"
  /\ UNCHANGED <<orders, payments, reqs, last, shop, authvars>>
  /\ oreqs' = [oreqs EXCEPT ![c] =
                 IF valid THEN [pc |-> "check", items |-> items, k |-> 1, resp |-> 0]
                 ELSE ODone(400)]

\* one turn of the first loop: await Product.findOne for item k and the test
\* of its inventory against the quantity of this item
CreateOrderCheck(c) ==
  LET item == oreqs[c].items[oreqs[c].k]
  IN /\ oreqs[c].pc = "check"
     /\ UNCHANGED <<orders, payments, reqs, last, shop, authvars>>
     /\ oreqs' = [oreqs EXCEPT ![c] =
                    IF item.product_id = NoProduct THEN ODone(400)
                    ELSE IF ~InStock(shop.inventory, item.quantity) THEN ODone(400)
                    ELSE IF oreqs[c].k < Len(oreqs[c].items)
                    THEN [oreqs[c] EXCEPT !.k = oreqs[c].k + 1]
                    ELSE [oreqs[c] EXCEPT !.pc = "save", !.k = 0]]

\* await order.save(): the Order exists from here on
CreateOrderSave(c) ==
  /\ oreqs[c].pc = "save"
  /\ UNCHANGED <<orders, payments, reqs, last, authvars>>
  /\ shop' = [shop EXCEPT !.sold = shop.sold + Quantity(oreqs[c].items, Len(oreqs[c].items))]
  /\ oreqs' = [oreqs EXCEPT ![c].pc = "inc", ![c].k = 1]

\* one turn of the second loop: await Product.findOneAndUpdate({ id },
\* { $inc: { inventory: -item.quantity } }); after the last one, res.status(201)
CreateOrderInc(c) ==
  /\ oreqs[c].pc = "inc"
  /\ UNCHANGED <<orders, payments, reqs, last, authvars>>
  /\ shop' = [shop EXCEPT !.inventory = shop.inventory - oreqs[c].items[oreqs[c].k].quantity]
  /\ oreqs' = [oreqs EXCEPT ![c] =
                 IF oreqs[c].k < Len(oreqs[c].items)
                 THEN [oreqs[c] EXCEPT !.k = oreqs[c].k + 1]
                 ELSE ODone(201)]

StockInit ==
  /\ orders = [o \in Orders |->
                 [status |-> "pending", payment_status |-> "pending", payment_id |-> 0]]
  /\ payments = << >>
  /\ reqs = [s \in Slots |-> Idle]
  /\ last = NoStep
  /\ \E n \in 0..MaxStock : shop = StockStart(n)
  /\ oreqs = [c \in OSlots |-> OIdle]
  /\ AuthStart

StockNext ==
  \E c \in OSlots :
    \/ \E items \in ItemLists, valid \in BOOLEAN : CreateOrder(c, items, valid)
    \/ CreateOrderCheck(c)
    \/ CreateOrderSave(c)
    \/ CreateOrderInc(c)

StockSpec == StockInit /\ [][StockNext]_vars

(***************************************************************************)
(* C19: an order is saved only if enough inventory remains: the inventory  *)
(* is never negative, the total quantity of the saved Orders never exceeds *)
(* the initial inventory, and a request asking for more than remains ends  *)
(* with 400 and saves no Order.                                            *)
(***************************************************************************)
C19_NeverOversold ==
  /\ shop.inventory >= 0
  /\ shop.sold <= shop.initial

\* the step that saves the Order of request c
C19_SaveStep ==
  \A c \in OSlots :
    (oreqs[c].pc = "save" /\ oreqs'[c].pc = "inc")
      => Quantity(oreqs[c].items, Len(oreqs[c].items)) <= shop.inventory

C19_StockValidated == [](C19_NeverOversold) /\ [][C19_SaveStep]_vars

(***************************************************************************)
(* C22: every outbound call that changes something at the provider         *)
(* (creation, capture, refund, of both providers) carries an idempotency   *)
(* key.                                                                    *)
(***************************************************************************)
NoKey == <<"none">>

\* the idempotency header of an outbound call: createOrder of PayPalService
\* sends 'PayPal-Request-Id': orderData.orderId; captureOrder, refundOrder and
\* the calls of NequiService send only Authorization and Content-Type
IdempotencyKey(prov, call, o) ==
  IF prov = "paypal" /\ call = "create" THEN <<"PayPal-Request-Id", o>> ELSE NoKey

C22_EveryProviderCallKeyed ==
  [][\A r \in Slots :
       /\ (reqs[r].kind = "idle" /\ reqs'[r].kind = "create")
            => IdempotencyKey(reqs'[r].prov, "create", reqs'[r].order) # NoKey
       /\ (reqs[r].kind = "idle" /\ (reqs'[r].kind = "capture"
                                     \/ (reqs'[r] = Done /\ last'.op = "capture")))
            => IdempotencyKey("paypal", "capture", NoOrder) # NoKey
       /\ RefundSent(r)
            => IdempotencyKey(reqs'[r].prov, "refund", reqs'[r].oid) # NoKey]_vars

(***************************************************************************)
(* C23: no two Payments of the same provider carry the same provider       *)
(* reference, whatever references the provider returns.                    *)
(***************************************************************************)
C23_ProviderRefUnique ==
  \A i, j \in 1..Len(payments) :
    (i # j /\ payments[i].provider = payments[j].provider)
      => payments[i].ref # payments[j].ref

(***************************************************************************)
(* C24: after a payment attempt of an order has failed (failed webhook on  *)
(* its pending Payment), a new creation request for the same order         *)
(* succeeds and adds a second Payment, the only pending one of the order.  *)
(***************************************************************************)
C24_RetryAfterFailedAttempt ==
  \A ref \in Refs, prov \in Providers, ref2 \in Refs :
    LET p == PaymentFindOne(payments, ref)
    IN (p # NoPayment /\ p.status = "pending" /\ orders[p.order_id].status = "pending")
       => LET failed == RunWebhook(Store, "failed", ref)
              retry == RunCreate(failed, p.order_id, prov, ref2)
          IN /\ Len(retry.p) = Len(payments) + 1
             /\ retry.p[Len(retry.p)].order_id = p.order_id
             /\ retry.p[Len(retry.p)].status = "pending"
             /\ retry.p[p.id].status = "failed"

(***************************************************************************)
(* C26: no step of a creation request changes the status (or the           *)
(* payment_status) of an Order; a successful save adds one pending Payment *)
(* for the request's order, and a request whose provider call fails is     *)
(* answered with the store as it was (no Payment added, payment_id kept).  *)
(***************************************************************************)
\* the step just taken is a step of a creation request in slot r
CreateStepOf(r) ==
  /\ StepOf(r)
  /\ \/ reqs[r].kind = "create"
     \/ reqs[r].kind = "idle" /\ reqs'[r].kind = "create"
     \/ reqs[r].kind = "idle" /\ reqs'[r] = Done /\ last'.op = "create"

C26_CreateStep ==
  \A r \in Slots :
    CreateStepOf(r) =>
      /\ \A o \in Orders : /\ orders'[o].status = orders[o].status
                           /\ orders'[o].payment_status = orders[o].payment_status
      /\ reqs[r].pc # "order" => orders' = orders
      /\ reqs[r].pc # "save" => payments' = payments
      /\ reqs[r].pc = "provider" => StoreUnchanged
      /\ (reqs[r].pc = "save" /\ payments' # payments)
           => /\ payments' = Append(payments, payments'[Len(payments')])
              /\ payments'[Len(payments')].status = "pending"
              /\ payments'[Len(payments')].order_id = reqs[r].order
      /\ (reqs'[r] = Done /\ last'.resp # 200) => StoreUnchanged

\* run without interruption on a pending order: the Order stays pending
C26_CreateRun ==
  \A o \in Orders, prov \in Providers, ref \in Refs :
    orders[o].status = "pending"
      => LET created == RunCreate(Store, o, prov, ref)
         IN /\ created.o[o].status = "pending"
            /\ \A q \in Orders \ {o} : created.o[q] = orders[q]
            /\ \A i \in 1..Len(payments) : created.p[i] = payments[i]

C26_CreationKeepsOrderStatus == [](C26_CreateRun) /\ [][C26_CreateStep]_vars

\* a creation has been answered 200: its Payment is pending and the Order,
\* still pending, refers to it
C26_Witness ==
  /\ last.op = "create" /\ last.resp = 200
  /\ payments[last.pid].status = "pending"
  /\ orders[payments[last.pid].order_id].status = "pending"
  /\ orders[payments[last.pid].order_id].payment_id = last.pid

(***************************************************************************)
(* C27: a webhook or capture request of one provider changes only Payments *)
(* of that provider and the Orders of those Payments.                      *)
(***************************************************************************)
C27_ProviderIsolation ==
  [][\A r \in Slots :
       (StepOf(r) /\ reqs[r].kind \in {"webhook", "capture"})
       => /\ \A i \in 1..Len(payments) :
               payments'[i] # payments[i] => payments[i].provider = reqs[r].prov
          /\ \A o \in Orders :
               orders'[o] # orders[o]
                 => \E i \in 1..Len(payments) :
                      payments[i].order_id = o /\ payments[i].provider = reqs[r].prov]_vars

(***************************************************************************)
(* C30: whenever no handler is between two steps, every Order that has a   *)
(* Payment has payment_status equal to that Payment's status.              *)
(***************************************************************************)
\* no request handler is between two of its steps
Quiescent == \A r \in Slots : reqs[r].kind \in {"idle", "done"}

C30_PaymentStatusMirrored ==
  Quiescent =>
    \A i \in 1..Len(payments) :
      orders[payments[i].order_id].payment_status = payments[i].status


(***************************************************************************)
(* C29: a completed and a failed webhook racing for one pending Payment.   *)
(* ConflictSpec starts right after a creation has recorded a pending       *)
(* Payment and lets up to MaxReqs signature-valid completed and failed     *)
(* webhooks (of either route) for its reference arrive while the Payment   *)
(* is still pending and run with their steps interleaved in every order.   *)
(***************************************************************************)
ConflictNext ==
  \E r \in Slots :
    \/ \E now \in Clock,
          event_type \in {"PAYMENT.CAPTURE.COMPLETED", "PAYMENT.CAPTURE.DENIED"} :
         LET body == [event_type |-> event_type, id |-> payments[1].ref]
         IN /\ payments[1].status = "pending"
            /\ PayPalWebhook(r, body, PayPalGenerateWebhookSignature(body, now), now)
    \/ \E timestamp \in Clock, eventType \in {"PAYMENT_COMPLETED", "PAYMENT_FAILED"} :
         LET body == [eventType |-> eventType, paymentId |-> payments[1].ref]
         IN /\ payments[1].status = "pending"
            /\ NequiWebhook(r, body, NequiGenerateWebhookSignature(body, timestamp), timestamp)
    \/ WebhookPaymentUpdate(r)
    \/ WebhookOrderUpdate(r)

ConflictSpec == RaceInit /\ [][ConflictNext]_vars

\* C29: once every webhook handler that has arrived for the pending Payment
\* has finished, the Payment and its Order agree: (completed, paid) or
\* (failed, cancelled), never a mixed pair
C29_FinalStateAgrees ==
  (/\ \E r \in Slots : reqs[r] = Done
   /\ Quiescent)
  => <<payments[1].status, orders[payments[1].order_id].status>>
       \in {<<"completed", "paid">>, <<"failed", "cancelled">>}


(***************************************************************************)
(* getAccessToken of PayPalService / NequiService: one service instance,   *)
(* MaxCallers provider calls that need a token, and the clock. Each await  *)
(* is one step: a call either returns the cached token at once or sends a  *)
(* token request and continues when the provider has answered.             *)
(***************************************************************************)
payvars == <<orders, payments, reqs, last>>

\* a tokenExpiry that is the provider's expiry itself
TokenExpiryNoMargin(received, expires_in) == received + expires_in

\* new Date(Date.now() + (response.data.expires_in - 1800) * 1000), in seconds
TokenExpiry(received, expires_in) == received + (expires_in - Margin)

\* this.accessToken && this.tokenExpiry && this.tokenExpiry > new Date();
\* accessToken and tokenExpiry are null together
CacheValid == client.accessToken # NoToken /\ client.tokenExpiry > time

\* the token requests sent and not answered yet
Outstanding == {c \in Callers : callers[c].pc = "request"}

\* the number of tokens issued so far: the provider numbers them
Issued == client.accessToken.n

\* a provider call asks for a token: the cached one if valid, else axios.post
\* to the token endpoint
GetAccessToken(c) ==
  /\ callers[c].pc \in {"idle", "done"}
  /\ IF CacheValid
     THEN callers' = [callers EXCEPT ![c] =
                        [pc |-> "done", token |-> client.accessToken,
                         cached |-> TRUE, at |-> time]]
     ELSE /\ Issued + Cardinality(Outstanding) < MaxTokens
          /\ callers' = [callers EXCEPT ![c] = [CIdle EXCEPT !.pc = "request"]]
  /\ UNCHANGED <<time, client, payvars, stockvars>>

\* the token response arrives: accessToken and tokenExpiry are overwritten
\* and the new token is returned
TokenResponse(c, expires_in) ==
  /\ callers[c].pc = "request"
  /\ LET token == [n |-> Issued + 1, issued |-> time, expires_in |-> expires_in]
     IN /\ client' = [accessToken |-> token,
                      tokenExpiry |-> TokenExpiry(time, expires_in)]
        /\ callers' = [callers EXCEPT ![c] =
                         [pc |-> "done", token |-> token, cached |-> FALSE, at |-> time]]
  /\ UNCHANGED <<time, payvars, stockvars>>

\* the token request fails: the catch block throws 'Failed to authenticate'
TokenRequestFails(c) ==
  /\ callers[c].pc = "request"
  /\ callers' = [callers EXCEPT ![c] = [CIdle EXCEPT !.pc = "done", !.at = time]]
  /\ UNCHANGED <<time, client, payvars, stockvars>>

\* time passes
Tick(t) ==
  /\ t > time
  /\ time' = t
  /\ UNCHANGED <<client, callers, payvars, stockvars>>

AuthNext ==
  \/ \E c \in Callers :
       \/ GetAccessToken(c)
       \/ \E expires_in \in ExpiresIn : TokenResponse(c, expires_in)
       \/ TokenRequestFails(c)
  \/ \E t \in Times : Tick(t)

AuthSpec == Init /\ [][AuthNext]_vars

AuthTypeOK ==
  /\ time \in Times
  /\ client.accessToken.n \in 0..MaxTokens
  /\ \A c \in Callers : callers[c].pc \in {"idle", "request", "done"}

\* C21: on one client instance at most one token request is outstanding at
\* any time (concurrent callers that find no valid token share one request)
C21_OneTokenRequestOutstanding == Cardinality(Outstanding) <= 1

\* the seconds left at `at` before the provider-declared expiry of a token
Remaining(token, at) == token.issued + token.expires_in - at

\* C25: getAccessToken returns the cached token only while at least Margin
\* seconds remain before issue time + expires_in, requests a fresh token
\* otherwise, and never serves from the cache a token whose expires_in is at
\* most Margin
C25_Call ==
  \A c \in Callers :
    (callers[c].pc \in {"idle", "done"} /\ callers'[c] # callers[c])
      => IF callers'[c].pc = "done"
         THEN /\ callers'[c].cached
              /\ callers'[c].token = client.accessToken
              /\ callers'[c].token # NoToken
              /\ Remaining(client.accessToken, time) >= Margin
              /\ client.accessToken.expires_in > Margin
         ELSE /\ callers'[c].pc = "request"
              /\ client.accessToken = NoToken
                   \/ Remaining(client.accessToken, time) <= Margin

C25_Served ==
  \A c \in Callers :
    callers[c].cached
      => /\ Remaining(callers[c].token, callers[c].at) >= Margin
         /\ callers[c].token.expires_in > Margin

C25_ExpiryMargin == [](C25_Served) /\ [][C25_Call]_vars

\* a token is served from the cache some time after it was issued, and later,
\* with less than the margin left, a call sends a token request instead
C25_Witness ==
  \E c, d \in Callers :
    /\ callers[c].cached /\ callers[c].at > callers[c].token.issued
    /\ callers[d].pc = "request"
    /\ client.accessToken # NoToken
    /\ Remaining(client.accessToken, time) < Margin


(***************************************************************************)
(* C28: a store error in the middle of a completed webhook, and the        *)
(* provider's redelivery. StoreFailSpec starts right after a creation has  *)
(* recorded a pending Payment and lets up to MaxReqs signature-valid       *)
(* completed webhooks (of either route) for its reference run; each of the *)
(* two updates of a handler either succeeds or throws, and a throw is      *)
(* caught by the route, which answers 500.                                 *)
(***************************************************************************)
\* the catch block of the route: res.status(500).json({ error: 'Webhook processing failed' })
WebhookFails(r) ==
  Finish(r, [Step("webhook", reqs[r].prov, 500, "Webhook processing failed") EXCEPT
               !.ev = reqs[r].ev, !.ref = reqs[r].ref, !.pid = reqs[r].pid,
               !.pst = reqs[r].pst, !.sigok = reqs[r].sigok])

\* await Payment.findOneAndUpdate(...) throws: nothing has been written
WebhookPaymentUpdateFails(r) ==
  /\ UNCHANGED <<stockvars, authvars>>
  /\ reqs[r].kind = "webhook" /\ reqs[r].pc = "payment"
  /\ UNCHANGED <<orders, payments>>
  /\ WebhookFails(r)

\* await Order.findOneAndUpdate(...) throws: the Payment has been written,
\* the Order has not
WebhookOrderUpdateFails(r) ==
  /\ UNCHANGED <<stockvars, authvars>>
  /\ reqs[r].kind = "webhook" /\ reqs[r].pc = "order"
  /\ UNCHANGED <<orders, payments>>
  /\ WebhookFails(r)

StoreFailNext ==
  \E r \in Slots :
    \/ \E now \in Clock :
         LET body == [event_type |-> "PAYMENT.CAPTURE.COMPLETED", id |-> payments[1].ref]
         IN /\ Quiescent
            /\ PayPalWebhook(r, body, PayPalGenerateWebhookSignature(body, now), now)
    \/ \E timestamp \in Clock :
         LET body == [eventType |-> "PAYMENT_COMPLETED", paymentId |-> payments[1].ref]
         IN /\ Quiescent
            /\ NequiWebhook(r, body, NequiGenerateWebhookSignature(body, timestamp), timestamp)
    \/ WebhookPaymentUpdate(r)
    \/ WebhookOrderUpdate(r)
    \/ WebhookPaymentUpdateFails(r)
    \/ WebhookOrderUpdateFails(r)

StoreFailSpec == RaceInit /\ [][StoreFailNext]_vars

\* C28: when a delivery of the completed webhook has been answered 200 (the
\* store was available for all of it) and no handler is running, the
\* Payment is completed and its Order is paid, whatever store errors
\* interrupted the deliveries before it
C28_RedeliveryReconciles ==
  (Quiescent /\ last.op = "webhook" /\ last.resp = 200)
    => /\ payments[1].status = "completed"
       /\ orders[payments[1].order_id].status = "paid"

=============================================================================
